---- MODULE Spec2Model ----
(***************************************************************************)
(* Model of de40_signalbot.py: the polling loop of main, one detection     *)
(* cycle (check_signals_once) split at its blocking I/O calls, the state   *)
(* file (load_state / save_state), the notifier (telegram_send) and the    *)
(* EMA crossover detector. Spec is the process, stopped and started again  *)
(* at any point; LoopSpec is main left running; DetSpec, RtSpec and        *)
(* EmaSpec apply the detector, the state file's encoding and ema on their  *)
(* own.                                                                    *)
(***************************************************************************)
EXTENDS Integers, Sequences, FiniteSets, TLC

\* ------------------------------------------------------------------ bounds
\* close prices are drawn from 1..MaxPrice
MaxPrice == 3
\* bar times (hours) are drawn from 1..MaxTime
MaxTime == 2
\* the close of every bar before the last two
BasePrice == 2
\* the detector on its own takes its six inputs from 0..MaxVal
MaxVal == 2
\* the encoding on its own takes keys of up to MaxKeyLen characters
MaxKeyLen == 2
\* ema on its own takes close sequences of up to MaxEmaLen bars
MaxEmaLen == 3

\* -------------------------------------------------------- program constants
\* len(df) < 210
MinBars == 210
\* ema(df["close"], 20) / 50 / 200
Span20 == 20
Span50 == 50
Span200 == 200

Prices == 1..MaxPrice
Times == 1..MaxTime
Kinds == {"LONG", "SHORT"}

\* ------------------------------------------------------------ JSON values
\* A value of the state dict: a string, a non-string JSON value, or no entry.
JStr(s) == [t |-> "str", v |-> s]
JNum == [t |-> "num", v |-> "0"]
JAbsent == [t |-> "absent", v |-> ""]

\* str(candle_time): the textual form of the bar's timestamp
TimeStr(t) == "T" \o ToString(t)

\* f"{signal_type}:{candle_time_str}"
SentKey(signal_type, candle_time) == signal_type \o ":" \o TimeStr(candle_time)

Keys == {SentKey(k, t) : k \in Kinds, t \in Times}

\* the dict json.load returns for "{}"
EmptyDict == [last_sent_key |-> JAbsent, last_bar |-> JAbsent]

\* variant: the key is read from the superseded field last_bar
DictGetLegacy(d) == d.last_bar

\* state.get("last_sent_key"): None when the entry is missing
DictGet(d) == d.last_sent_key

\* variant: any stored key counts as sent (if last_sent_key: ...)
PyEqAny(sent_key, val) == val.t = "str"

\* sent_key == last_sent_key (a str equals only an equal str)
PyEq(sent_key, val) == val.t = "str" /\ val.v = sent_key

\* variant: the key is stored under the superseded field last_bar
DictSetLegacy(d, sent_key) == [d EXCEPT !.last_bar = JStr(sent_key)]

\* state["last_sent_key"] = sent_key
DictSet(d, sent_key) == [d EXCEPT !.last_sent_key = JStr(sent_key)]

\* ------------------------------------------------------------- state file
\* What is at STATE_PATH: nothing, a file that cannot be opened or read,
\* text that is no JSON (an empty or cut-off file included), JSON that is
\* no object (a list, a string, null), or a JSON object.
FileMissing == [kind |-> "missing", dict |-> EmptyDict]
FileUnreadable == [kind |-> "unreadable", dict |-> EmptyDict]
FileGarbage == [kind |-> "garbage", dict |-> EmptyDict]
FileNonObject == [kind |-> "nonobject", dict |-> EmptyDict]
FileObject(d) == [kind |-> "object", dict |-> d]

\* the state files a process may find when it starts
InitialFiles ==
    {FileMissing, FileUnreadable, FileGarbage, FileNonObject,
     FileObject(EmptyDict),
     FileObject([EmptyDict EXCEPT !.last_sent_key = JNum])}
    \cup {FileObject(DictSet(EmptyDict, k)) : k \in Keys}
    \cup {FileObject([EmptyDict EXCEPT !.last_bar = JStr(SentKey("LONG", 1))])}

\* variant: load_state without its try/except, json.load's error raises
load_state_uncaught(f) ==
    IF f.kind = "missing"
    THEN [isdict |-> TRUE, dict |-> EmptyDict, failed |-> FALSE,
          raised |-> FALSE]
    ELSE IF f.kind \in {"unreadable", "garbage"}
    THEN [isdict |-> TRUE, dict |-> EmptyDict, failed |-> TRUE,
          raised |-> TRUE]
    ELSE IF f.kind = "nonobject"
    THEN [isdict |-> FALSE, dict |-> EmptyDict, failed |-> FALSE,
          raised |-> FALSE]
    ELSE [isdict |-> TRUE, dict |-> f.dict, failed |-> FALSE,
          raised |-> FALSE]

\* load_state: the value returned, whether it is a dict, whether the except
\* branch ran ("STATE: load failed") and whether an exception leaves it.
\* os.path.exists is false: {}. open or json.load raises: caught, {}.
\* Otherwise whatever json.load gives, a dict or not.
load_state(f) ==
    IF f.kind = "missing"
    THEN [isdict |-> TRUE, dict |-> EmptyDict, failed |-> FALSE,
          raised |-> FALSE]
    ELSE IF f.kind \in {"unreadable", "garbage"}
    THEN [isdict |-> TRUE, dict |-> EmptyDict, failed |-> TRUE,
          raised |-> FALSE]
    ELSE IF f.kind = "nonobject"
    THEN [isdict |-> FALSE, dict |-> EmptyDict, failed |-> FALSE,
          raised |-> FALSE]
    ELSE [isdict |-> TRUE, dict |-> f.dict, failed |-> FALSE,
          raised |-> FALSE]

\* how the write of save_state can end: done; open(..., "w") raises and the
\* file is as before; open has truncated the file and the write raises.
SaveOutcomes == {"ok", "open_error", "write_error"}

\* variant: save_state without its try/except, a failed write raises
save_state_uncaught(d, f, outcome) ==
    IF outcome = "ok"
    THEN [file |-> FileObject(d), failed |-> FALSE, raised |-> FALSE]
    ELSE IF outcome = "open_error"
    THEN [file |-> f, failed |-> TRUE, raised |-> TRUE]
    ELSE [file |-> FileGarbage, failed |-> TRUE, raised |-> TRUE]

\* save_state: the file afterwards, whether the except branch ran
\* ("STATE: save failed") and whether an exception leaves it.
save_state(d, f, outcome) ==
    IF outcome = "ok"
    THEN [file |-> FileObject(d), failed |-> FALSE, raised |-> FALSE]
    ELSE IF outcome = "open_error"
    THEN [file |-> f, failed |-> TRUE, raised |-> FALSE]
    ELSE [file |-> FileGarbage, failed |-> TRUE, raised |-> FALSE]

\* ---------------------------------------------------------------- notifier
\* how requests.post can end
PostOutcomes == {"200", "non200", "exception"}

\* variant: telegram_send without its try/except around requests.post
telegram_send_uncaught(has_creds, post) ==
    IF ~has_creds
    THEN [requested |-> FALSE, delivered |-> FALSE, raised |-> FALSE,
          log |-> {"TELEGRAM: missing token/chat_id"}]
    ELSE IF post = "exception"
    THEN [requested |-> TRUE, delivered |-> FALSE, raised |-> TRUE,
          log |-> {}]
    ELSE IF post = "non200"
    THEN [requested |-> TRUE, delivered |-> FALSE, raised |-> FALSE,
          log |-> {"TELEGRAM: send failed"}]
    ELSE [requested |-> TRUE, delivered |-> TRUE, raised |-> FALSE,
          log |-> {}]

\* telegram_send: whether a request was made, whether the message was
\* accepted (status 200), what was logged, whether an exception left it.
telegram_send(has_creds, post) ==
    IF ~has_creds
    THEN [requested |-> FALSE, delivered |-> FALSE, raised |-> FALSE,
          log |-> {"TELEGRAM: missing token/chat_id"}]
    ELSE IF post = "exception"
    THEN [requested |-> TRUE, delivered |-> FALSE, raised |-> FALSE,
          log |-> {"TELEGRAM: send exception"}]
    ELSE IF post = "non200"
    THEN [requested |-> TRUE, delivered |-> FALSE, raised |-> FALSE,
          log |-> {"TELEGRAM: send failed"}]
    ELSE [requested |-> TRUE, delivered |-> TRUE, raised |-> FALSE,
          log |-> {}]

\* -------------------------------------------------------------- indicators
RECURSIVE Pow(_, _)
Pow(b, e) == IF e = 0 THEN 1 ELSE b * Pow(b, e - 1)

\* variant: n taken as the centre of mass (ewm(com=n)), a = 1 / (n + 1)
RECURSIVE EwmNumCom(_, _, _)
EwmNumCom(series, n, i) ==
    IF i = 1 THEN series[1]
    ELSE n * EwmNumCom(series, n, i - 1) + series[i] * Pow(n + 1, i - 2)

\* numerator of the i-th value of series.ewm(span=n, adjust=False).mean()
\* over the denominator (n+1)^(i-1): y[1] = x[1],
\* y[i] = (1 - a) * y[i-1] + a * x[i] with a = 2 / (n + 1)
RECURSIVE EwmNum(_, _, _)
EwmNum(series, n, i) ==
    IF i = 1 THEN series[1]
    ELSE (n - 1) * EwmNum(series, n, i - 1) + 2 * series[i] * Pow(n + 1, i - 2)

\* ema(series, n): one exact rational per bar
ema(series, n) ==
    [i \in 1..Len(series) |->
        [num |-> EwmNum(series, n, i), den |-> Pow(n + 1, i - 1)]]

\* a close price as a rational
Rat(x) == [num |-> x, den |-> 1]

\* comparisons of rationals with positive denominators
Gt(a, b) == a.num * b.den > b.num * a.den
Lt(a, b) == a.num * b.den < b.num * a.den
Le(a, b) == a.num * b.den <= b.num * a.den
Ge(a, b) == a.num * b.den >= b.num * a.den

\* ---------------------------------------------------------------- detector
\* A row of the frame as the dict of df.iloc[i].to_dict()
Row(time, close, e20, e50, e200) ==
    [time |-> time, close |-> close, ema20 |-> e20, ema50 |-> e50,
     ema200 |-> e200]

\* variant: the previous bar must be strictly below (< for <=)
long_signal_strict(prev, last) ==
    /\ Gt(last.close, last.ema200)
    /\ Lt(prev.ema20, prev.ema50)
    /\ Gt(last.ema20, last.ema50)

long_signal(prev, last) ==
    /\ Gt(last.close, last.ema200)
    /\ Le(prev.ema20, prev.ema50)
    /\ Gt(last.ema20, last.ema50)

short_signal(prev, last) ==
    /\ Lt(last.close, last.ema200)
    /\ Ge(prev.ema20, prev.ema50)
    /\ Lt(last.ema20, last.ema50)

\* "LONG" if long_signal else ("SHORT" if short_signal else None)
signal_type(long, short) ==
    IF long THEN "LONG" ELSE IF short THEN "SHORT" ELSE "None"

\* ---------------------------------------------------------------- the data
\* A fetched frame after dropna: n bars; close[1] is the close of every bar
\* before the last two, close[2] and close[3] are the closes of the last
\* two bars; time is the time of the last bar. An EMA over a constant run
\* is that constant, so the EMA columns of the last two rows are those of
\* the three-bar series close.
NoDf == [n |-> 0 - 1, close |-> <<>>, time |-> 0]
BarCounts == {0, MinBars - 1, MinBars}
Frames ==
    {[n |-> n, close |-> <<BasePrice, p, l>>, time |-> t] :
        n \in BarCounts, p \in Prices, l \in Prices, t \in Times}

\* df.iloc[-2] and df.iloc[-1] once the three EMA columns are set
RowAt(df, i, t) ==
    Row(t, Rat(df.close[i]), ema(df.close, Span20)[i],
        ema(df.close, Span50)[i], ema(df.close, Span200)[i])
PrevRow(df) == RowAt(df, 2, df.time - 1)
LastRow(df) == RowAt(df, 3, df.time)

\* what yf.download and the normalisation can give
FetchResults ==
    {[kind |-> "raise", df |-> NoDf], [kind |-> "empty", df |-> NoDf],
     [kind |-> "missing_column", df |-> NoDf]}
    \cup {[kind |-> "frame", df |-> d] : d \in Frames}

\* the bars of a fetch result: none when the download raises or the frame
\* lacks a column (-1), else the rows dropna leaves
FetchedBars(r) ==
    IF r.kind = "frame" THEN r.df.n ELSE IF r.kind = "empty" THEN 0 ELSE 0 - 1

\* load_dax_h1: the frame returned (NoDf for None), the exception that
\* leaves it ("none" when it returns) and the line it prints on a failure.
\* A frame that dropna leaves without rows raises at df.iloc[-1].
load_dax_h1(r) ==
    IF r.kind = "raise"
    THEN [df |-> NoDf, exc |-> "download", log |-> {}]
    ELSE IF r.kind = "empty"
    THEN [df |-> NoDf, exc |-> "none", log |-> {"DATA: no data received"}]
    ELSE IF r.kind = "missing_column"
    THEN [df |-> NoDf, exc |-> "none", log |-> {"DATA: missing column"}]
    ELSE IF r.df.n = 0
    THEN [df |-> NoDf, exc |-> "IndexError", log |-> {}]
    ELSE [df |-> r.df, exc |-> "none", log |-> {}]

\* ------------------------------------------------------------- one cycle
\* What check_signals_once has done when it returns, raises or reaches its
\* call of telegram_send ("notify"): the steps performed, the lines printed,
\* the exception that leaves it, and its locals.
Ended(outcome, exception, lines, steps) ==
    [outcome |-> outcome, exc |-> exception, log |-> lines, ops |-> steps,
     df |-> NoDf, long |-> FALSE, short |-> FALSE, state |-> EmptyDict,
     sent_key |-> "", load_failed |-> FALSE, seen_key |-> ""]

\* variant: the history check is off by one
TooShortOffByOne(n) == n < MinBars - 1

\* len(df) < 210
TooShort(n) == n < MinBars

\* check_signals_once from load_state on, for a frame with enough history
CheckFrame(d, f) ==
    LET prev == PrevRow(d)
        last == LastRow(d)
        long == long_signal(prev, last)
        short == short_signal(prev, last)
        ld == load_state(f)
        lines == IF ld.failed THEN {"STATE: load failed"} ELSE {}
        steps == <<"fetch", "detect", "load">>
        last_sent_key == DictGet(ld.dict)
        st == signal_type(long, short)
        key == SentKey(st, last.time)
        seen == IF long \/ short THEN key ELSE ""
    IN  IF ld.raised
        THEN [Ended("exception", "load", lines, steps)
                 EXCEPT !.load_failed = TRUE, !.seen_key = seen]
        ELSE IF ~ld.isdict
        THEN [Ended("exception", "AttributeError", lines, steps)
                 EXCEPT !.load_failed = TRUE, !.seen_key = seen]
        ELSE IF st = "None"
        THEN [Ended("no_signal", "none",
                    lines \cup {"STATUS: no signal this candle"}, steps)
                 EXCEPT !.load_failed = ld.failed, !.seen_key = seen]
        ELSE IF PyEq(key, last_sent_key)
        THEN [Ended("duplicate", "none",
                    lines \cup {"STATUS: signal already sent"}, steps)
                 EXCEPT !.load_failed = ld.failed, !.seen_key = seen]
        ELSE [outcome |-> "notify", exc |-> "none", log |-> lines,
              ops |-> steps, df |-> d, long |-> long, short |-> short,
              state |-> ld.dict, sent_key |-> key, load_failed |-> ld.failed,
              seen_key |-> seen]

\* variant: a fetch that gave no frame is tried again within the cycle
check_signals_once_retry(fr, f) ==
    LET r == load_dax_h1(fr) IN
    IF r.exc # "none" THEN Ended("exception", r.exc, r.log, <<"fetch">>)
    ELSE IF r.df = NoDf
    THEN Ended("no_data", "none", r.log, <<"fetch", "fetch">>)
    ELSE IF TooShort(r.df.n)
    THEN Ended("not_enough", "none", {"STATUS: not enough candles"},
               <<"fetch">>)
    ELSE CheckFrame(r.df, f)

\* check_signals_once up to its call of telegram_send
check_signals_once(fr, f) ==
    LET r == load_dax_h1(fr) IN
    IF r.exc # "none" THEN Ended("exception", r.exc, r.log, <<"fetch">>)
    ELSE IF r.df = NoDf THEN Ended("no_data", "none", r.log, <<"fetch">>)
    ELSE IF TooShort(r.df.n)
    THEN Ended("not_enough", "none", {"STATUS: not enough candles"},
               <<"fetch">>)
    ELSE CheckFrame(r.df, f)

\* ------------------------------------------------------------------- state
VARIABLES
    pc,          \* where the process is: boot, check, notify, save, sleep
    has_creds,   \* TELEGRAM_BOT_TOKEN and TELEGRAM_CHAT_ID are both set
    file,        \* what is at STATE_PATH
    df,          \* the frame of the running cycle (NoDf outside of one)
    long,        \* long_signal of the running cycle
    short,       \* short_signal of the running cycle
    state,       \* the dict load_state returned to the running cycle
    sent_key,    \* sent_key of the running cycle ("" before it is set)
    status,      \* how the cycle ended ("running" inside, "none" outside)
    exc,         \* the exception main caught from the cycle, or "none"
    log,         \* the lines printed since the cycle (or the boot) began
    tg,          \* what the cycle's (or the boot's) telegram_send did
    ops,         \* the steps the cycle has performed, in order
    file0,       \* what was at STATE_PATH when the cycle began
    delivered,   \* the keys of the signal messages the endpoint accepted
                 \* since a load or a save of the state last failed or
                 \* the process was last stopped ahead of a save
    prev_sent,   \* the frame of the preceding cycle if it sent and persisted
    repeat,      \* the cycle fetched that same frame again
    bars,        \* the bars of the cycle's fetch result (-1: none)
    seen_key,    \* the key of the signal in the cycle's frame ("" if none)
    watch,       \* which of the histories below this run records
    after,       \* how the cycle before the running one ended
    unsaved,     \* the key whose message was attempted when the process was
                 \* stopped ahead of the save, until the next cycle is over
    unsent,      \* the key last persisted after its message had failed,
                 \* while no load or save of the state has failed since
    last_try,    \* the key of the latest call of telegram_send by a cycle
                 \* ("" if none, "void" once a write failed or was cut off)
    det,         \* the detector applied on its own: its inputs and result
    rt,          \* the state file's encoding applied on its own
    em           \* ema applied on its own: its inputs and result

\* the histories (watch, delivered, prev_sent, repeat, after, unsaved, unsent,
\* last_try) observe the program and are read by no step of it
hist == <<watch, after, unsaved, unsent, last_try>>

\* the pure functions applied on their own
pure == <<det, rt, em>>

vars == <<pc, has_creds, file, df, long, short, state, sent_key, status, exc,
          log, tg, ops, file0, delivered, prev_sent, repeat, bars, seen_key,
          hist, pure>>

Watches == {"none", "delivered", "repeat", "after", "unsaved", "unsent",
            "last_try"}

NoDet == [prev |-> Row(0, Rat(0), Rat(0), Rat(0), Rat(0)),
          last |-> Row(0, Rat(0), Rat(0), Rat(0), Rat(0)),
          done |-> FALSE, long |-> FALSE, short |-> FALSE, type |-> "None"]

NoCall == [requested |-> FALSE, delivered |-> FALSE, raised |-> FALSE,
           log |-> {}]

NoRt == [key |-> <<>>, text |-> <<>>, stage |-> "none", ok |-> FALSE,
         loaded |-> <<>>]

NoEm == [close |-> <<>>, n |-> 0, done |-> FALSE, out |-> <<>>]

\* a process that has just started
Started ==
    /\ pc = "boot"
    /\ df = NoDf
    /\ long = FALSE
    /\ short = FALSE
    /\ state = EmptyDict
    /\ sent_key = ""
    /\ status = "none"
    /\ exc = "none"
    /\ log = {}
    /\ tg = NoCall
    /\ ops = <<>>
    /\ file0 = file
    /\ delivered = {}
    /\ prev_sent = NoDf
    /\ repeat = FALSE
    /\ bars = 0 - 1
    /\ seen_key = ""
    /\ after = "none"
    /\ unsaved = ""
    /\ unsent = ""

Init ==
    /\ has_creds \in BOOLEAN
    /\ file \in InitialFiles
    /\ watch \in Watches
    /\ last_try = IF watch = "last_try" /\ file.kind # "object"
                  THEN "" ELSE "void"
    /\ det = NoDet
    /\ rt = NoRt
    /\ em = NoEm
    /\ Started

\* variant: main without its try/except, an exception of the cycle ends
\* the process
EndCycleUncaught(outcome, exception, lines) ==
    /\ pc' = IF exception = "none" THEN "sleep" ELSE "dead"
    /\ status' = outcome
    /\ exc' = exception
    /\ log' = lines
    /\ df' = NoDf
    /\ long' = FALSE
    /\ short' = FALSE
    /\ state' = EmptyDict
    /\ sent_key' = ""

\* the cycle is over: its locals are gone, main is about to print the
\* heartbeat (after "ERROR: main loop exception" if the cycle raised)
EndCycle(outcome, exception, lines) ==
    /\ pc' = "sleep"
    /\ status' = outcome
    /\ exc' = exception
    /\ log' = lines \cup (IF exception = "none" THEN {}
                          ELSE {"ERROR: main loop exception"})
    /\ df' = NoDf
    /\ long' = FALSE
    /\ short' = FALSE
    /\ state' = EmptyDict
    /\ sent_key' = ""

\* main: telegram_send("Render: Bot gestartet und laeuft.")
Boot ==
    /\ pc = "boot"
    /\ \E post \in PostOutcomes :
        /\ tg' = telegram_send(has_creds, post)
        /\ log' = tg'.log
        /\ pc' = IF tg'.raised THEN "dead" ELSE "check"
    /\ UNCHANGED <<has_creds, file, df, long, short, state, sent_key, status,
                   exc, ops, file0, delivered, prev_sent, repeat, bars,
                   seen_key, hist, pure>>

\* main calls check_signals_once, which runs until it returns, raises or
\* reaches its call of telegram_send
Check ==
    /\ pc = "check"
    /\ \E fr \in FetchResults :
      \E c \in {check_signals_once(fr, file)} :
        /\ repeat' = (fr.kind = "frame" /\ prev_sent # NoDf
                      /\ fr.df = prev_sent)
        /\ bars' = FetchedBars(fr)
        /\ seen_key' = c.seen_key
        /\ ops' = c.ops
        /\ delivered' = IF c.load_failed THEN {} ELSE delivered
        /\ IF c.outcome = "notify"
           THEN /\ pc' = "notify"
                /\ status' = "running"
                /\ exc' = "none"
                /\ log' = c.log
                /\ df' = c.df
                /\ long' = c.long
                /\ short' = c.short
                /\ state' = c.state
                /\ sent_key' = c.sent_key
           ELSE EndCycle(c.outcome, c.exc, c.log)
        /\ unsent' = IF c.load_failed THEN "" ELSE unsent
    /\ file0' = file
    /\ prev_sent' = NoDf
    /\ tg' = NoCall
    /\ UNCHANGED <<has_creds, file, watch, after, unsaved, last_try, pure>>

\* variant: the key is written to the state file first, the message is
\* sent after it
NotifyPersistFirst ==
    /\ pc = "notify"
    /\ \E post \in PostOutcomes :
      \E r \in {telegram_send(has_creds, post)} :
        /\ tg' = r
        /\ ops' = Append(ops, "notify")
        /\ delivered' = delivered
        /\ pc' = "save"
        /\ log' = log \cup r.log
        /\ UNCHANGED <<df, long, short, state, sent_key, status, exc>>
    /\ file' = save_state(DictSet(state, sent_key), file, "ok").file
    /\ last_try' = IF watch = "last_try" THEN sent_key ELSE "void"
    /\ UNCHANGED <<has_creds, file0, prev_sent, repeat, bars, seen_key,
                   watch, after, unsaved, unsent, pure>>

\* check_signals_once: telegram_send(msg)
Notify ==
    /\ pc = "notify"
    /\ \E post \in PostOutcomes :
      \E r \in {telegram_send(has_creds, post)} :
        /\ tg' = r
        /\ ops' = Append(ops, "notify")
        /\ delivered' = IF r.delivered /\ watch = "delivered"
                        THEN delivered \cup {sent_key}
                        ELSE delivered
        /\ IF r.raised
           THEN EndCycle("exception", "telegram", log \cup r.log)
           ELSE /\ pc' = "save"
                /\ log' = log \cup r.log
                /\ UNCHANGED <<df, long, short, state, sent_key, status, exc>>
    /\ last_try' = IF watch = "last_try" THEN sent_key ELSE "void"
    /\ UNCHANGED <<has_creds, file, file0, prev_sent, repeat, bars, seen_key,
                   watch, after, unsaved, unsent, pure>>

\* check_signals_once: state["last_sent_key"] = sent_key; save_state(state);
\* print("STATUS: sent", sent_key)
Save ==
    /\ pc = "save"
    /\ \E outcome \in SaveOutcomes :
      \E sv \in {save_state(DictSet(state, sent_key), file, outcome)} :
        /\ file' = sv.file
        /\ delivered' = IF sv.failed THEN {} ELSE delivered
        /\ prev_sent' = IF sv.failed \/ watch # "repeat" THEN NoDf ELSE df
        /\ unsent' = IF sv.failed THEN ""
                     ELSE IF watch = "unsent" /\ ~tg.delivered THEN sent_key
                     ELSE unsent
        /\ last_try' = IF sv.failed THEN "void" ELSE last_try
        /\ IF sv.raised
           THEN EndCycle("exception", "save", log)
           ELSE EndCycle("sent", "none",
                         log \cup {"STATUS: sent"}
                             \cup (IF sv.failed THEN {"STATE: save failed"}
                                   ELSE {}))
    /\ ops' = Append(ops, "save")
    /\ UNCHANGED <<has_creds, tg, file0, repeat, bars, seen_key, watch, after,
                   unsaved, pure>>

\* main: print("HEARTBEAT: alive"); time.sleep(300); the loop goes round
Heartbeat ==
    /\ pc = "sleep"
    /\ pc' = "check"
    /\ status' = "none"
    /\ exc' = "none"
    /\ log' = {}
    /\ tg' = NoCall
    /\ ops' = <<>>
    /\ file0' = file
    /\ repeat' = FALSE
    /\ bars' = 0 - 1
    /\ seen_key' = ""
    /\ after' = IF watch = "after" THEN status ELSE "none"
    /\ unsaved' = ""
    /\ UNCHANGED <<has_creds, file, df, long, short, state, sent_key,
                   delivered, prev_sent, watch, unsent, last_try, pure>>

\* the process is terminated at any point and started again: the module is
\* imported anew and main runs; only the state file outlives the process
Restart ==
    /\ pc' = "boot"
    /\ df' = NoDf
    /\ long' = FALSE
    /\ short' = FALSE
    /\ state' = EmptyDict
    /\ sent_key' = ""
    /\ status' = "none"
    /\ exc' = "none"
    /\ log' = {}
    /\ tg' = NoCall
    /\ ops' = <<>>
    /\ repeat' = FALSE
    /\ file0' = file
    /\ prev_sent' = NoDf
    /\ bars' = 0 - 1
    /\ seen_key' = ""
    /\ delivered' = IF pc = "save" THEN {} ELSE delivered
    /\ after' = "none"
    /\ unsaved' = IF pc = "save" /\ watch = "unsaved" THEN sent_key
                  ELSE IF pc \in {"boot", "check"} THEN unsaved
                  ELSE ""
    /\ last_try' = IF pc = "save" THEN "void" ELSE last_try
    /\ UNCHANGED <<has_creds, file, watch, unsent, pure>>

Next ==
    \/ Boot
    \/ Check
    \/ Notify
    \/ Save
    \/ Heartbeat
    \/ Restart

Spec == Init /\ [][Next]_vars

\* ------------------------------------------------------ main left running
\* The process is not stopped from outside. Every step of main is a call
\* that returns (the download and requests.post time out, time.sleep(300)
\* ends), so a step that can be taken is taken.
LoopNext ==
    \/ Boot
    \/ Check
    \/ Notify
    \/ Save
    \/ Heartbeat

LoopInit == Init /\ watch = "after"

LoopSpec == LoopInit /\ [][LoopNext]_vars /\ WF_vars(LoopNext)

\* ------------------------------------------------- the detector on its own
\* The crossover rule of check_signals_once applied to two rows whose six
\* values it reads are drawn freely (in a cycle they are tied to each other
\* by the EMA recurrence).
Vals == 0..MaxVal

DetInputs ==
    {[NoDet EXCEPT
        !.prev = Row(0, Rat(0), Rat(p20), Rat(p50), Rat(0)),
        !.last = Row(1, Rat(c), Rat(l20), Rat(l50), Rat(l200))] :
     p20 \in Vals, p50 \in Vals, c \in Vals, l20 \in Vals, l50 \in Vals,
     l200 \in Vals}

DetInit ==
    /\ has_creds = FALSE
    /\ file = FileMissing
    /\ watch = "none"
    /\ last_try = "void"
    /\ det \in DetInputs
    /\ rt = NoRt
    /\ em = NoEm
    /\ Started

\* long_signal, short_signal and signal_type of check_signals_once
Detect ==
    /\ ~det.done
    /\ det' = [det EXCEPT
                 !.done = TRUE,
                 !.long = long_signal(det.prev, det.last),
                 !.short = short_signal(det.prev, det.last),
                 !.type = signal_type(long_signal(det.prev, det.last),
                                      short_signal(det.prev, det.last))]
    /\ UNCHANGED <<pc, has_creds, file, df, long, short, state, sent_key,
                   status, exc, log, tg, ops, file0, delivered, prev_sent,
                   repeat, bars, seen_key, hist, rt, em>>

DetNext == Detect

DetSpec == DetInit /\ [][DetNext]_vars

\* ------------------------------------------------- the encoding on its own
\* What json.dump writes for {"last_sent_key": K} and what json.load makes
\* of the text of the file, character by character. A key is a sequence of
\* characters, among them the two that JSON escapes inside a string.
Quote == "\""
Backslash == "\\"
KeyChars == {"L", ":", Quote, Backslash}

RECURSIVE KeyStrings(_)
KeyStrings(len) ==
    IF len = 0 THEN {<<>>}
    ELSE KeyStrings(len - 1)
         \cup {Append(k, c) : k \in {x \in KeyStrings(len - 1) :
                                        Len(x) = len - 1},
                              c \in KeyChars}

\* variant: the string is written as it is, nothing escaped
RECURSIVE EscapeNone(_)
EscapeNone(str) ==
    IF str = <<>> THEN <<>> ELSE <<Head(str)>> \o EscapeNone(Tail(str))

\* json.dump of a str: a quote and a backslash get a backslash before them
RECURSIVE Escape(_)
Escape(str) ==
    IF str = <<>> THEN <<>>
    ELSE (IF Head(str) \in {Quote, Backslash}
          THEN <<Backslash, Head(str)>>
          ELSE <<Head(str)>>) \o Escape(Tail(str))

\* json.dump(state, f) for state = {"last_sent_key": key}
json_dump(key) ==
    <<"{", Quote, "last_sent_key", Quote, ":", Quote>> \o Escape(key)
        \o <<Quote, "}">>

\* json.load reading a string from text[i] on, after its opening quote: the
\* string and the place after its closing quote, or a failure
RECURSIVE ScanString(_, _, _)
ScanString(text, i, acc) ==
    IF i > Len(text) THEN [ok |-> FALSE, val |-> <<>>, next |-> i]
    ELSE IF text[i] = Quote THEN [ok |-> TRUE, val |-> acc, next |-> i + 1]
    ELSE IF text[i] = Backslash
    THEN IF i + 1 <= Len(text) /\ text[i + 1] \in {Quote, Backslash}
         THEN ScanString(text, i + 2, Append(acc, text[i + 1]))
         ELSE [ok |-> FALSE, val |-> <<>>, next |-> i]
    ELSE ScanString(text, i + 1, Append(acc, text[i]))

\* json.load(f) in load_state, for a text that holds at most the one member:
\* whether it parses (else load_state's except branch runs and {} is
\* returned) and the last_sent_key of the dict (<<>> and has = FALSE if none)
json_load(text) ==
    LET bad == [failed |-> TRUE, has |-> FALSE, key |-> <<>>]
        val == ScanString(text, 7, <<>>)
    IN  IF text = <<"{", "}">>
        THEN [failed |-> FALSE, has |-> FALSE, key |-> <<>>]
        ELSE IF Len(text) < 8 THEN bad
        ELSE IF SubSeq(text, 1, 6) #
                    <<"{", Quote, "last_sent_key", Quote, ":", Quote>>
        THEN bad
        ELSE IF ~val.ok THEN bad
        ELSE IF val.next # Len(text) \/ text[val.next] # "}" THEN bad
        ELSE [failed |-> FALSE, has |-> TRUE, key |-> val.val]

RtInit ==
    /\ has_creds = FALSE
    /\ file = FileMissing
    /\ watch = "none"
    /\ last_try = "void"
    /\ det = NoDet
    /\ rt \in {[NoRt EXCEPT !.key = k, !.stage = "state"] :
                 k \in KeyStrings(MaxKeyLen)}
    /\ em = NoEm
    /\ Started

\* save_state: json.dump writes the text, all of it or, when the write
\* fails on the way, a part of it
RtSave ==
    /\ rt.stage = "state"
    /\ \E n \in 0..Len(json_dump(rt.key)) :
        rt' = [rt EXCEPT !.text = SubSeq(json_dump(rt.key), 1, n),
                         !.ok = (n = Len(json_dump(rt.key))),
                         !.stage = "saved"]
    /\ UNCHANGED <<pc, has_creds, file, df, long, short, state, sent_key,
                   status, exc, log, tg, ops, file0, delivered, prev_sent,
                   repeat, bars, seen_key, hist, det, em>>

\* load_state, in the same process or in the next: json.load reads the text
RtLoad ==
    /\ rt.stage = "saved"
    /\ rt' = [rt EXCEPT !.loaded = json_load(rt.text), !.stage = "loaded"]
    /\ UNCHANGED <<pc, has_creds, file, df, long, short, state, sent_key,
                   status, exc, log, tg, ops, file0, delivered, prev_sent,
                   repeat, bars, seen_key, hist, det, em>>

RtNext ==
    \/ RtSave
    \/ RtLoad

RtSpec == RtInit /\ [][RtNext]_vars

\* ---------------------------------------------------------- ema on its own
\* ema applied to every close sequence of 1..MaxEmaLen bars, for the three
\* spans check_signals_once uses.
Spans == {Span20, Span50, Span200}

RECURSIVE CloseSeqs(_)
CloseSeqs(len) ==
    IF len = 0 THEN {<<>>}
    ELSE {Append(c, p) : c \in CloseSeqs(len - 1), p \in Prices}

EmaInit ==
    /\ has_creds = FALSE
    /\ file = FileMissing
    /\ watch = "none"
    /\ last_try = "void"
    /\ det = NoDet
    /\ rt = NoRt
    /\ em \in {[NoEm EXCEPT !.close = c, !.n = n] :
                 c \in UNION {CloseSeqs(len) : len \in 1..MaxEmaLen},
                 n \in Spans}
    /\ Started

\* df["ema20"] = ema(df["close"], 20) and the like
EmaApply ==
    /\ ~em.done
    /\ em' = [em EXCEPT !.done = TRUE, !.out = ema(em.close, em.n)]
    /\ UNCHANGED <<pc, has_creds, file, df, long, short, state, sent_key,
                   status, exc, log, tg, ops, file0, delivered, prev_sent,
                   repeat, bars, seen_key, hist, det, rt>>

EmaNext == EmaApply

EmaSpec == EmaInit /\ [][EmaNext]_vars

\* ------------------------------------------------------------ properties
\* the string last_sent_key a state file holds ("" if it holds none)
PersistedKey(f) ==
    IF f.kind = "object" /\ f.dict.last_sent_key.t = "str"
    THEN f.dict.last_sent_key.v
    ELSE ""

\* the cycle has performed step x / how often
Did(x) == \E i \in 1..Len(ops) : ops[i] = x
Times_(x) == Cardinality({i \in 1..Len(ops) : ops[i] = x})

\* C1: while every load and save of the state succeeds, no key's signal
\* message is accepted by the endpoint a second time.
C1_AtMostOncePerKey ==
    [][(pc = "notify" /\ tg'.delivered) => sent_key \notin delivered]_vars

\* C2: a cycle that fetches the very frame of the cycle before it, which
\* sent and persisted its key, ends as a duplicate: it calls neither
\* telegram_send nor save_state and the state file is as it was.
C2_Idempotent ==
    repeat =>
        /\ pc = "sleep"
        /\ status = "duplicate"
        /\ ops = <<"fetch", "detect", "load">>
        /\ tg = NoCall
        /\ file = file0

C2_Witness == repeat /\ pc = "sleep" /\ status = "duplicate"

\* C3 as stated: every fetch result with fewer than 210 bars ends the cycle
\* as "not enough history", without detection, state access or message.
C3_ShortFetchNotEnough ==
    (pc = "sleep" /\ bars \in 0..(MinBars - 1)) =>
        /\ status = "not_enough"
        /\ ops = <<"fetch">>
        /\ tg = NoCall
        /\ file = file0

\* C3 amended: a fetch result with fewer than 210 bars ends the cycle after
\* the fetch, without detection, state access or message and with the state
\* file as it was; with at least one bar it ends as "not enough history".
C3_ShortFetchSkips ==
    bars \in 0..(MinBars - 1) =>
        /\ pc = "sleep"
        /\ ops = <<"fetch">>
        /\ tg = NoCall
        /\ file = file0
        /\ bars >= 1 =>
            /\ status = "not_enough"
            /\ exc = "none"
            /\ log = {"STATUS: not enough candles"}

C3_Witness == pc = "sleep" /\ bars = MinBars - 1 /\ status = "not_enough"

\* C4: the detector gives LONG exactly on close > ema200, prev.ema20 <=
\* prev.ema50, last.ema20 > last.ema50, SHORT exactly on the mirrored
\* condition, no signal otherwise; the two conditions exclude each other,
\* so testing SHORT first would give the same result.
C4_DetectorRule ==
    det.done =>
        LET p20 == det.prev.ema20.num
            p50 == det.prev.ema50.num
            l20 == det.last.ema20.num
            l50 == det.last.ema50.num
            c == det.last.close.num
            l200 == det.last.ema200.num
            isLong == c > l200 /\ p20 <= p50 /\ l20 > l50
            isShort == c < l200 /\ p20 >= p50 /\ l20 < l50
        IN  /\ det.type = "LONG" <=> isLong
            /\ det.type = "SHORT" <=> isShort
            /\ det.type = "None" <=> (~isLong /\ ~isShort)
            /\ ~(isLong /\ isShort)
            /\ det.type = (IF det.short THEN "SHORT"
                           ELSE IF det.long THEN "LONG" ELSE "None")

C4_Witness ==
    /\ det.done
    /\ det.type = "LONG"
    /\ det.prev.ema20 = det.prev.ema50

\* C5: a cycle whose frame holds a signal with a key other than the
\* persisted one calls telegram_send exactly once and, unless the save
\* fails, leaves that key as the persisted last_sent_key.
C5_NovelSignalSentAndMarked ==
    (pc = "sleep" /\ seen_key # "" /\ PersistedKey(file0) # seen_key) =>
        /\ Times_("notify") = 1
        /\ "STATE: save failed" \notin log => PersistedKey(file) = seen_key

\* C6: the state file differs from what the cycle found only after a cycle
\* that called telegram_send for a signal whose key was not the persisted
\* one and reached "sent"; every cycle that ends as no data, not enough
\* history, no signal or duplicate, or that raises, leaves it as it was.
C6_StateOnlyBySend ==
    /\ file # file0 =>
        /\ pc = "sleep"
        /\ status = "sent"
        /\ Did("notify")
        /\ seen_key # ""
        /\ PersistedKey(file0) # seen_key
    /\ (pc = "sleep"
        /\ status \in {"no_data", "not_enough", "no_signal", "duplicate",
                       "exception"}) => file = file0

C6_Witness ==
    /\ pc = "sleep"
    /\ status = "duplicate"
    /\ PersistedKey(file0) = seen_key
    /\ file = file0

\* C7: once the state file holds a last_sent_key, no step leaves it
\* without one.
C7_KeyNeverRemoved ==
    [][PersistedKey(file) # "" => PersistedKey(file') # ""]_vars

\* C8: whatever is at STATE_PATH without a string last_sent_key, a cycle
\* whose frame holds a signal does not raise, calls telegram_send and
\* reaches "sent".
C8_BadStateFileTolerated ==
    (pc = "sleep" /\ seen_key # "" /\ PersistedKey(file0) = "") =>
        /\ exc = "none"
        /\ status = "sent"
        /\ Did("notify")

\* C9: whatever the write of save_state does, the cycle reaches "sent"
\* without an exception, what telegram_send did stands, and a write that
\* did not leave the new state in the file is logged.
C9_SaveFailureTolerated ==
    [][(pc = "save" /\ pc' = "sleep") =>
        /\ status' = "sent"
        /\ exc' = "none"
        /\ tg' = tg
        /\ "STATUS: sent" \in log'
        /\ file' # FileObject(DictSet(state, sent_key)) =>
               "STATE: save failed" \in log']_vars

C9_Witness ==
    /\ pc = "sleep"
    /\ status = "sent"
    /\ "STATE: save failed" \in log
    /\ tg.delivered
    /\ file = FileGarbage

\* C10: no exception leaves telegram_send; without credentials it makes no
\* request; a call that did not deliver has logged a line; the process and
\* the cycle that called it go on, the cycle to "sent".
C10_TelegramNeverRaises ==
    /\ ~tg.raised
    /\ pc # "dead"
    /\ exc # "telegram"
    /\ ~has_creds => ~tg.requested
    /\ tg.log \subseteq log
    /\ (tg # NoCall /\ ~tg.delivered) => tg.log # {}
    /\ (pc = "sleep" /\ Did("notify")) => status = "sent"

C10_Witness ==
    /\ pc = "sleep"
    /\ status = "sent"
    /\ tg.requested
    /\ "TELEGRAM: send exception" \in log

\* C11 as stated: check_signals_once returns normally, whatever the fetch,
\* the state file, the notifier and the save do.
C11_CycleReturnsNormally == pc = "sleep" => exc = "none"

\* C11 amended: no exception leaves an iteration of main's loop. The cycle
\* returns normally on an empty result, on a missing column, and on every
\* frame with a row unless the state file holds JSON that is no object,
\* whatever the notifier and the save do. The only exceptions that leave
\* check_signals_once are those of the download, of df.iloc[-1] on a frame
\* without rows and of state.get on a non-dict; main catches and logs each
\* and goes on to the heartbeat.
C11_ExceptionsCaughtByMain ==
    /\ pc # "dead"
    /\ exc # "none" =>
        /\ pc = "sleep"
        /\ status = "exception"
        /\ "ERROR: main loop exception" \in log
        /\ tg = NoCall
        /\ file = file0
        /\ \/ exc = "download" /\ bars = 0 - 1 /\ ops = <<"fetch">>
           \/ exc = "IndexError" /\ bars = 0 /\ ops = <<"fetch">>
           \/ /\ exc = "AttributeError"
              /\ bars >= MinBars
              /\ file0 = FileNonObject
              /\ ops = <<"fetch", "detect", "load">>
    /\ (pc = "sleep" /\ status = "exception") => exc # "none"
    /\ ("DATA: no data received" \in log \/ "DATA: missing column" \in log) =>
        (pc = "sleep" /\ status = "no_data" /\ exc = "none")
    /\ (pc = "sleep" /\ bars >= 1 /\ file0 # FileNonObject) => exc = "none"
    /\ Did("notify") => exc = "none"

C11_Witness ==
    /\ pc = "sleep"
    /\ exc = "download"
    /\ status = "exception"
    /\ "ERROR: main loop exception" \in log

\* C12: main's loop stays alive. Every cycle that has begun ends, and after
\* every cycle, however it ended (skip, no signal, duplicate, sent with the
\* notifier or the save failing or not, exception), main starts another one;
\* a cycle's steps are taken only while no other cycle is under way: a step
\* extends the running cycle's steps or is the first after the heartbeat.
C12_LoopStaysAlive ==
    /\ (pc = "sleep") ~> (pc = "check")
    /\ []<>(pc = "sleep")
    /\ [][ops' # <<>> =>
            /\ Len(ops') >= Len(ops)
            /\ SubSeq(ops', 1, Len(ops)) = ops
            /\ ops = <<>> => (pc = "check" /\ status = "none")]_vars

C12_Witness ==
    /\ pc = "check"
    /\ status = "none"
    /\ after = "exception"

\* C13: what load_state reads back after save_state has written a state
\* with last_sent_key K in full is a state with last_sent_key K, for every
\* K; a text cut off by a failed write does not parse (load_state then
\* returns the empty state).
C13_RoundTrip ==
    rt.stage = "loaded" =>
        IF rt.ok
        THEN rt.loaded = [failed |-> FALSE, has |-> TRUE, key |-> rt.key]
        ELSE rt.loaded.failed /\ ~rt.loaded.has

C13_Witness ==
    /\ rt.stage = "loaded"
    /\ rt.ok
    /\ rt.key = <<Quote, Backslash>>
    /\ rt.loaded.key = rt.key

\* C14: for each span n of 20, 50, 200 and each nonempty close sequence,
\* ema gives as many values as there are closes, every one of them defined,
\* with ema[0] = close[0] and, for i > 0,
\* ema[i] = ema[i-1] + (2 / (n + 1)) * (close[i] - ema[i-1]). Each value is
\* the fraction num / den; the right-hand side over the denominator
\* (n + 1) * den[i-1] has the numerator
\* (n + 1) * num[i-1] + 2 * (close[i] * den[i-1] - num[i-1]).
C14_EmaRecurrence ==
    em.done =>
        /\ Len(em.out) = Len(em.close)
        /\ \A i \in 1..Len(em.out) : em.out[i].den > 0
        /\ em.out[1].num = em.close[1] * em.out[1].den
        /\ \A i \in 2..Len(em.out) :
            /\ em.out[i].den = (em.n + 1) * em.out[i - 1].den
            /\ em.out[i].num =
                   (em.n + 1) * em.out[i - 1].num
                   + 2 * (em.close[i] * em.out[i - 1].den
                          - em.out[i - 1].num)

C14_Witness ==
    /\ em.done
    /\ em.n = Span200
    /\ em.close = <<1, 3, 2>>
    /\ Len(em.out) = 3

\* C15: notify, then persist. The state file is changed only by the save
\* of a cycle that has called telegram_send before it, and a key it comes
\* to hold is the key of that call; a process stopped between the call and
\* the save leaves the file as the cycle found it, and the first cycle of
\* the next process whose frame holds the same signal calls telegram_send
\* for it again.
C15_NotifyThenPersist ==
    /\ [][file' # file =>
            /\ pc = "save"
            /\ ops = <<"fetch", "detect", "load", "notify">>
            /\ tg # NoCall
            /\ PersistedKey(file') \in {"", sent_key}]_vars
    /\ [][(pc = "save" /\ pc' = "boot") => (file' = file /\ file = file0)]_vars
    /\ [](pc \in {"notify", "save"} => ~PyEq(sent_key, DictGet(file0.dict)))
    /\ []((unsaved # "" /\ seen_key = unsaved) =>
              (pc = "notify" \/ Did("notify")))

C15_Witness ==
    /\ unsaved # ""
    /\ seen_key = unsaved
    /\ pc = "sleep"
    /\ status = "sent"
    /\ ops = <<"fetch", "detect", "load", "notify", "save">>

\* the steps of a cycle in the order of the code
CycleSteps == <<"fetch", "detect", "load", "notify", "save">>

\* C16: nothing is retried within a cycle. The steps a cycle has performed
\* are an initial part of fetch, detect, load, notify, save, each at most
\* once; a cycle that ended after the fetch (no data, not enough history,
\* an exception of the fetch) has done nothing else, one that ended after
\* the load (no signal, duplicate, exception) has neither notified nor
\* saved, and a failed notification or save is followed by no second call.
C16_NoRetry ==
    /\ Len(ops) <= Len(CycleSteps)
    /\ ops = SubSeq(CycleSteps, 1, Len(ops))
    /\ \A x \in {"fetch", "load", "notify", "save"} : Times_(x) <= 1
    /\ (pc = "sleep" /\ status \in {"no_data", "not_enough"}) =>
        ops = <<"fetch">>
    /\ (pc = "sleep" /\ status \in {"no_signal", "duplicate"}) =>
        ops = <<"fetch", "detect", "load">>
    /\ (pc = "sleep" /\ status = "exception") =>
        ops \in {<<"fetch">>, <<"fetch", "detect", "load">>}
    /\ (pc = "sleep" /\ status = "sent") => ops = CycleSteps
    /\ pc = "notify" => ops = <<"fetch", "detect", "load">>
    /\ pc = "save" => ops = <<"fetch", "detect", "load", "notify">>
    /\ pc \in {"boot", "check"} => ops = <<>>

C16_Witness ==
    /\ pc = "sleep"
    /\ status = "sent"
    /\ ops = CycleSteps
    /\ tg.requested
    /\ ~tg.delivered
    /\ "STATE: save failed" \in log

\* C17: a state file that holds its key under last_bar and has no
\* last_sent_key is recognised: a cycle whose frame holds the signal of
\* that key ends as a duplicate and calls telegram_send not at all.
C17_LegacyKeyRecognized ==
    (/\ pc = "sleep"
     /\ seen_key # ""
     /\ file0.kind = "object"
     /\ file0.dict.last_sent_key = JAbsent
     /\ file0.dict.last_bar = JStr(seen_key)) =>
        /\ status = "duplicate"
        /\ ~Did("notify")
        /\ tg = NoCall

\* C18: a cycle whose telegram_send did not deliver (no credentials, a
\* status other than 200, an exception of the request) still writes its key
\* as last_sent_key, and, while every load and save of the state succeeds,
\* every later cycle whose frame holds the signal of that key ends as a
\* duplicate: the message that failed is never attempted again.
C18_FailedNotifyNeverRetried ==
    /\ []((/\ pc = "sleep"
           /\ Did("notify")
           /\ ~tg.delivered
           /\ "STATE: save failed" \notin log) =>
              (status = "sent" /\ PersistedKey(file) = seen_key))
    /\ [][(pc = "check" /\ unsent # "" /\ unsent' = unsent
           /\ seen_key' = unsent) =>
              (pc' = "sleep" /\ status' = "duplicate")]_vars

\* C19: while every write of the state succeeds and no process is stopped
\* between a call of telegram_send and its write, the state file holds no
\* last_sent_key if no cycle has called telegram_send and else the key of
\* the latest call; and a cycle whose frame holds a signal ends as a
\* duplicate exactly if its key is that latest one, whatever was sent
\* before it.
C19_SingleKeyStore ==
    /\ []((last_try # "void" /\ pc # "save") => PersistedKey(file) = last_try)
    /\ []((last_try # "void" /\ pc = "save") =>
              (last_try = sent_key /\ PersistedKey(file) # sent_key))
    /\ [][(pc = "check" /\ last_try # "void" /\ seen_key' # "") =>
              ((status' = "duplicate") <=> (seen_key' = last_try))]_vars

C19_Witness ==
    /\ pc = "sleep"
    /\ status = "sent"
    /\ last_try # "void"
    /\ PersistedKey(file0) \notin {"", seen_key}
    /\ PersistedKey(file) = seen_key
    /\ last_try = seen_key

====
